---- MODULE Spec2Model ----
(***************************************************************************)
(* Model of lights.py: the KnobReader polling state machine with its       *)
(* moving-average history, and send_quadrant, the encoder that maps a      *)
(* pixel grid onto four serpentine-wired LED segments sent as DNRGB        *)
(* datagrams.                                                              *)
(*                                                                         *)
(* Bytes are one-character strings; "T" is the tab byte, "N" the newline   *)
(* byte, "R" the carriage-return byte.  A byte string is a sequence of     *)
(* bytes.                                                                  *)
(***************************************************************************)
EXTENDS Integers, Sequences, FiniteSets, TLC

\* ------------------------------------------------------------------ bounds
\* Top-level calls made on the KnobReader in one behaviour.
MaxCalls == 4
\* Capacity of the transport's receive buffer (bytes).
MaxRx == 14
\* Calls of send_quadrant in one behaviour.
MaxSends == 2
\* Calls of buffered_read() in one behaviour of the polling loop.
MaxPolls == 12
\* Response lines the device may have queued at once.
MaxQueued == 2

\* ------------------------------------------------------- program constants
\* read(): "if self.ser.in_waiting < 12"
IN_WAITING_MIN == 12
\* __init__: "[(initial_value, initial_value)] * 10"
BUFFER_LEN == 10
\* __main__: DNRGB_PROTOCOL_VALUE = 4
DNRGB_PROTOCOL_VALUE == 4
\* send_rgb: dnrgb_header(5, arg_start_index)
WAIT_TIME == 5
\* voltage_to_value: "voltage * 3.3 / (65535)"
ADC_MAX == 65535

VARIABLES
    \* KnobReader fields
    initial_value,  \* constructor argument
    last_values,    \* self.last_values: the held Reading
    waiting,        \* self.waiting: TRUE = AWAITING_RESPONSE, FALSE = IDLE
    buffer,         \* self.buffer: the reading history, newest first
    \* the serial transport
    rx,             \* bytes buffered by the transport, not yet read
    tx,             \* bytes written to the transport, in order
    \* the caller's position
    pc,             \* "idle" | "blocked" (inside readline) | "raised"
    op,             \* the method last entered: "read" | "buffered_read" | "get_knob_values"
    exc,            \* the exception that ended the call, or "none"
    ev,             \* what the last read() did: "sent" | "held" | "line" | "blocked"
    retval,         \* value returned by the last read() that returned
    mean,           \* value returned by the last buffered_read() that returned
    knobs,          \* value returned by the last get_knob_values() that returned
    \* bookkeeping of the run
    calls,          \* top-level calls entered
    reads,          \* read() invocations
    consumed,       \* lines consumed by readline()
    stalled,        \* consecutive read() calls answered with nothing buffered
    results,        \* results of all read() calls that returned, newest first
    pushed,         \* results of the read() calls made by buffered_read(), newest first
    origins,        \* for each entry of pushed, the number of the consumed line it came from
    diag,           \* lines logged as invalid
    \* the encoder
    frame,          \* the pixel grid handed to send_quadrant (caller's array)
    n_leading,      \* QUADRANT_LEADING_LEDS in force
    sent,           \* datagrams sent by the last send_quadrant call
    enc_exc,        \* exception raised by the last send_quadrant call, or "none"
    sends,          \* send_quadrant calls made
    \* calls of the module's functions on their own
    arg_wait_time,  \* dnrgb_header argument
    arg_start_index, \* dnrgb_header / send_rgb argument
    header,         \* outcome of dnrgb_header(arg_wait_time, arg_start_index)
    datagram,       \* outcome of send_rgb(rgb_values, arg_start_index)
    voltages,       \* a pair of voltage_to_value arguments
    knob_values     \* voltage_to_value of each, <<>> before the call

knobVars == <<initial_value, last_values, waiting, buffer, rx, tx, pc, op, exc, ev,
              retval, mean, knobs, calls, reads, consumed, stalled, results, pushed, origins,
              diag>>
encVars == <<frame, n_leading, sent, enc_exc, sends>>
fnVars == <<arg_wait_time, arg_start_index, header, datagram, voltages, knob_values>>
vars == <<initial_value, last_values, waiting, buffer, rx, tx, pc, op, exc, ev,
          retval, mean, knobs, calls, reads, consumed, stalled, results, pushed, origins, diag,
          frame, n_leading, sent, enc_exc, sends,
          arg_wait_time, arg_start_index, header, datagram, voltages, knob_values>>

\* ------------------------------------------------------------ byte strings
Digits == {"0", "1", "2", "3", "4", "5", "6", "7", "8", "9"}

DigitVal(c) ==
    CASE c = "0" -> 0 [] c = "1" -> 1 [] c = "2" -> 2 [] c = "3" -> 3 [] c = "4" -> 4
      [] c = "5" -> 5 [] c = "6" -> 6 [] c = "7" -> 7 [] c = "8" -> 8 [] c = "9" -> 9

\* Bytes int() skips at both ends of its argument.
IsSpace(c) == c \in {"N", "R", " "}

RECURSIVE LStrip(_)
LStrip(s) == IF s # <<>> /\ IsSpace(Head(s)) THEN LStrip(Tail(s)) ELSE s

RECURSIVE RStrip(_)
RStrip(s) ==
    IF s # <<>> /\ IsSpace(s[Len(s)]) THEN RStrip(SubSeq(s, 1, Len(s) - 1)) ELSE s

RECURSIVE DigitsValue(_, _)
DigitsValue(s, acc) ==
    IF s = <<>> THEN acc ELSE DigitsValue(Tail(s), 10 * acc + DigitVal(Head(s)))

\* int(field) for a bytes field: surrounding whitespace is skipped, one
\* optional sign, then one or more decimal digits; anything else is a
\* ValueError.
PyInt(field) ==
    LET s == RStrip(LStrip(field))
        neg == s # <<>> /\ Head(s) = "-"
        body == IF s # <<>> /\ Head(s) \in {"-", "+"} THEN Tail(s) ELSE s
    IN  IF body # <<>> /\ \A i \in 1..Len(body) : body[i] \in Digits
        THEN [ok |-> TRUE, val |-> IF neg THEN -DigitsValue(body, 0) ELSE DigitsValue(body, 0)]
        ELSE [ok |-> FALSE, val |-> 0]

\* line.split(b"\t")
RECURSIVE SplitTab(_, _)
SplitTab(s, cur) ==
    IF s = <<>> THEN <<cur>>
    ELSE IF Head(s) = "T" THEN <<cur>> \o SplitTab(Tail(s), <<>>)
    ELSE SplitTab(Tail(s), Append(cur, Head(s)))

\* ---------------------------------------------------------- the transport
HasLine(b) == \E i \in 1..Len(b) : b[i] = "N"

LineEnd(b) == CHOOSE i \in 1..Len(b) : b[i] = "N" /\ \A j \in 1..(i - 1) : b[j] # "N"

\* ser.in_waiting
in_waiting == Len(rx)

\* What the device may put on the line in one burst.
Chunks ==
    { <<"1", "2", "T", "3", "4", "N">>,                              \* "12\t34\n"
      <<"0", "0", "0", "1", "2", "T", "0", "0", "0", "3", "4", "N">>, \* "00012\t00034\n"
      <<"a", "b", "c", "T", "3", "4", "N">>,                         \* "abc\t34\n"
      <<"1", "2", "3", "4", "5", "N">>,                              \* "12345\n"
      <<"-", "1", "T", "-", "1", "N">>,                              \* "-1\t-1\n"
      <<"T", "N">>,                                                  \* "\t\n"
      <<"0", "0", "1", "2", "T", "0", "0", "3", "4", "0", "0", "0">> }  \* 12 bytes, unterminated

\* ----------------------------------------------------------- KnobReader
Reading(a, b) == <<a, b>>

\* read(), lines 35-40: split the line on tabs and convert the first two
\* fields.  values[0] is converted before values[1] is looked up; only
\* ValueError is caught.
ParseLine(line) ==
    LET values == SplitTab(line, <<>>)
        first == PyInt(values[1])
        second == PyInt(values[2])
    IN  IF ~first.ok THEN [exc |-> "none", retval |-> Reading(0, 0), logged |-> TRUE]
        ELSE IF Len(values) < 2
             THEN [exc |-> "IndexError", retval |-> Reading(0, 0), logged |-> FALSE]
        ELSE IF ~second.ok THEN [exc |-> "none", retval |-> Reading(0, 0), logged |-> TRUE]
        ELSE [exc |-> "none", retval |-> Reading(first.val, second.val), logged |-> FALSE]

\* AfterReadline, had line 42 (self.waiting = False) been left out.
AfterReadlineStaysWaiting ==
    LET n == LineEnd(rx)
        line == SubSeq(rx, 1, n)
        rest == SubSeq(rx, n + 1, Len(rx))
        p == ParseLine(line)
    IN  [kind |-> "line", wr |-> <<>>, waiting |-> waiting,
         last |-> IF p.exc # "none" THEN last_values ELSE p.retval,
         rx |-> rest, ret |-> IF p.exc # "none" THEN last_values ELSE p.retval,
         exc |-> p.exc, took |-> 1,
         log |-> IF p.exc = "none" /\ p.logged THEN <<line>> ELSE <<>>]

\* read(), lines 33-44, once readline() has a terminated line to return:
\* the line leaves the transport, is parsed, and unless the parse raised
\* the reader stores the value and goes back to IDLE.
AfterReadline ==
    LET n == LineEnd(rx)
        line == SubSeq(rx, 1, n)
        rest == SubSeq(rx, n + 1, Len(rx))
        p == ParseLine(line)
    IN  IF p.exc # "none"
        THEN [kind |-> "line", wr |-> <<>>, waiting |-> waiting, last |-> last_values,
              rx |-> rest, ret |-> last_values, exc |-> p.exc, took |-> 1,
              log |-> <<>>]
        ELSE [kind |-> "line", wr |-> <<>>, waiting |-> FALSE, last |-> p.retval,
              rx |-> rest, ret |-> p.retval, exc |-> "none", took |-> 1,
              log |-> IF p.logged THEN <<line>> ELSE <<>>]

\* ReadIdle, had line 25 (self.waiting = True) been left out.
ReadIdleNoFlag ==
    [kind |-> "sent", wr |-> <<"N">>, waiting |-> FALSE, last |-> last_values,
     rx |-> rx, ret |-> last_values, exc |-> "none", took |-> 0, log |-> <<>>]

\* read(), lines 23-26: IDLE.
ReadIdle ==
    [kind |-> "sent", wr |-> <<"N">>, waiting |-> TRUE, last |-> last_values,
     rx |-> rx, ret |-> last_values, exc |-> "none", took |-> 0, log |-> <<>>]

\* ReadHold, had it repeated the request while waiting.
ReadHoldResend ==
    [kind |-> "held", wr |-> <<"N">>, waiting |-> waiting, last |-> last_values,
     rx |-> rx, ret |-> last_values, exc |-> "none", took |-> 0, log |-> <<>>]

\* read(), lines 30-31: AWAITING_RESPONSE, too few bytes buffered.
ReadHold ==
    [kind |-> "held", wr |-> <<>>, waiting |-> waiting, last |-> last_values,
     rx |-> rx, ret |-> last_values, exc |-> "none", took |-> 0, log |-> <<>>]

\* read(), line 33 with no terminated line buffered: readline() (the port
\* is opened without a timeout) does not return until a newline arrives.
ReadBlock ==
    [kind |-> "blocked", wr |-> <<>>, waiting |-> waiting, last |-> last_values,
     rx |-> rx, ret |-> last_values, exc |-> "none", took |-> 0, log |-> <<>>]

\* read(): what one invocation does in the current state.
read ==
    IF ~waiting THEN ReadIdle
    ELSE IF in_waiting < IN_WAITING_MIN THEN ReadHold
    ELSE IF HasLine(rx) THEN AfterReadline
    ELSE ReadBlock

\* HistoryPush, had line 48 (self.buffer.pop()) been left out.
HistoryPushNoPop(buf, result) == <<result>> \o buf

\* buffered_read(), lines 48-49: drop the oldest entry, insert the newest
\* at the front.
HistoryPush(buf, result) == <<result>> \o SubSeq(buf, 1, Len(buf) - 1)

RECURSIVE SumComp(_, _)
SumComp(buf, k) == IF buf = <<>> THEN 0 ELSE Head(buf)[k] + SumComp(Tail(buf), k)

TruncDiv(m, n) == IF m >= 0 THEN m \div n ELSE -((-m) \div n)

\* Mean, had line 50 rounded toward zero (int(m / len(self.buffer))).
MeanTrunc(buf) == <<TruncDiv(SumComp(buf, 1), Len(buf)), TruncDiv(SumComp(buf, 2), Len(buf))>>

\* buffered_read(), line 50: m // len(self.buffer) per component; // is
\* floor division, as is \div for a positive divisor.
Mean(buf) == <<SumComp(buf, 1) \div Len(buf), SumComp(buf, 2) \div Len(buf)>>

\* voltage_to_value, had the upper clamp of lines 59-60 been left out.
VoltageToValueNoUpperClamp(voltage) ==
    LET v == voltage * 330
        lo == 5 * ADC_MAX
    IN  (IF v < lo THEN lo ELSE v) - lo

\* voltage_to_value(), lines 58-63, in exact arithmetic: the result is
\* returned as the numerator of a fraction over VoltDen.  Voltages are
\* held in units of 1/(100*ADC_MAX) volt.
VoltDen == 275 * ADC_MAX

voltage_to_value(voltage) ==
    LET v == voltage * 330
        hi == 280 * ADC_MAX
        lo == 5 * ADC_MAX
        c1 == IF v > hi THEN hi ELSE v
        c2 == IF c1 < lo THEN lo ELSE c1
    IN  c2 - lo

Take(s, n) == IF Len(s) <= n THEN s ELSE SubSeq(s, 1, n)

\* The part of a call that follows a read() that returned r: read() hands
\* r to its caller; buffered_read() pushes it and averages;
\* get_knob_values() converts the average.
Return(o, r) ==
    /\ retval' = r
    /\ results' = Take(<<r>> \o results, BUFFER_LEN)
    /\ IF o = "read"
       THEN UNCHANGED <<buffer, pushed, origins, mean, knobs>>
       ELSE /\ buffer' = HistoryPush(buffer, r)
            /\ pushed' = Take(<<r>> \o pushed, BUFFER_LEN)
            /\ origins' = Take(<<consumed'>> \o origins, BUFFER_LEN)
            /\ mean' = Mean(buffer')
            /\ IF o = "get_knob_values"
               THEN knobs' = <<voltage_to_value(mean'[1]), voltage_to_value(mean'[2])>>
               ELSE UNCHANGED knobs

\* The effect of one read() outcome out, inside a call of method o.
Apply(o, out) ==
    /\ tx' = tx \o out.wr
    /\ rx' = out.rx
    /\ waiting' = out.waiting
    /\ last_values' = out.last
    /\ consumed' = consumed + out.took
    /\ diag' = diag \o out.log
    /\ ev' = out.kind
    /\ exc' = out.exc
    /\ stalled' = IF out.kind = "held" /\ rx = <<>> THEN stalled + 1 ELSE 0
    /\ IF out.kind = "blocked"
       THEN pc' = "blocked" /\ UNCHANGED <<retval, results, buffer, pushed, origins, mean, knobs>>
       ELSE IF out.exc # "none"
       THEN pc' = "raised" /\ UNCHANGED <<retval, results, buffer, pushed, origins, mean, knobs>>
       ELSE pc' = "idle" /\ Return(o, out.ret)

Methods == {"read", "buffered_read", "get_knob_values"}

\* A call of method o on the reader: each method runs read() once.
CallBody(o) ==
    /\ pc = "idle"
    /\ calls' = calls + 1
    /\ reads' = reads + 1
    /\ op' = o
    /\ Apply(o, read)
    /\ UNCHANGED <<initial_value, frame, n_leading, sent, enc_exc, sends, fnVars>>

Call(o) == calls < MaxCalls /\ CallBody(o)

Read == Call("read")
BufferedRead == Call("buffered_read")
GetKnobValues == Call("get_knob_values")

\* readline() returns to a caller that was blocked in it, and the call
\* runs to its end.
ReadlineReturns ==
    /\ pc = "blocked"
    /\ HasLine(rx)
    /\ Apply(op, AfterReadline)
    /\ UNCHANGED <<initial_value, op, calls, reads, frame, n_leading, sent, enc_exc, sends,
                   fnVars>>

\* The device puts bytes on the line.
Deliver ==
    /\ pc # "raised"
    /\ \E c \in Chunks :
        /\ Len(rx) + Len(c) <= MaxRx
        /\ rx' = rx \o c
    /\ stalled' = 0
    /\ UNCHANGED <<initial_value, last_values, waiting, buffer, tx, pc, op, exc, ev,
                   retval, mean, knobs, calls, reads, consumed, results, pushed, origins,
                   diag, frame, n_leading, sent, enc_exc, sends, fnVars>>

InitialValues == {0, 10}

\* KnobReader(initial_value, ser), lines 16-19, on a quiet line.
InitKnob ==
    /\ initial_value \in InitialValues
    /\ last_values = Reading(initial_value, initial_value)
    /\ waiting = FALSE
    /\ buffer = [i \in 1..BUFFER_LEN |-> Reading(initial_value, initial_value)]
    /\ rx = <<>>
    /\ tx = <<>>
    /\ pc = "idle"
    /\ op = "none"
    /\ exc = "none"
    /\ ev = "none"
    /\ retval = Reading(initial_value, initial_value)
    /\ mean = Reading(initial_value, initial_value)
    /\ knobs = <<0, 0>>
    /\ calls = 0
    /\ reads = 0
    /\ consumed = 0
    /\ stalled = 0
    /\ results = <<>>
    /\ pushed = <<>>
    /\ origins = <<>>
    /\ diag = <<>>

\* No frame is being encoded.
EncoderUnused ==
    /\ frame = <<>>
    /\ n_leading = <<1, 1, 1, 1>>
    /\ sent = <<>>
    /\ enc_exc = "none"
    /\ sends = 0

\* None of the module's functions is called on its own.
FunctionsUnused ==
    /\ arg_wait_time = 0
    /\ arg_start_index = 0
    /\ header = [exc |-> "uncalled", bytes |-> <<>>]
    /\ datagram = [exc |-> "uncalled", bytes |-> <<>>, rgb_values |-> <<>>]
    /\ voltages = <<0, 0>>
    /\ knob_values = <<>>

Init == InitKnob /\ EncoderUnused /\ FunctionsUnused

Next == Read \/ BufferedRead \/ GetKnobValues \/ ReadlineReturns \/ Deliver

Spec == Init /\ [][Next]_vars

TypeOK ==
    /\ waiting \in BOOLEAN
    /\ Len(buffer) = BUFFER_LEN
    /\ pc \in {"idle", "blocked", "raised"}

\* ------------------------------------------------------ the polling loop
\* start_cam, line 221: the reader is driven through get_knob_values(),
\* hence buffered_read(), once per frame, and the device answers requests
\* with whole lines of at least IN_WAITING_MIN bytes.
ResponseLines ==
    { <<"0", "0", "0", "1", "2", "T", "0", "0", "0", "3", "4", "N">>,   \* "00012\t00034\n"
      <<"a", "b", "c", "T", "0", "0", "0", "0", "0", "3", "4", "N">>,   \* "abc\t0000034\n"
      <<"0", "0", "0", "0", "0", "0", "1", "2", "3", "4", "5", "N">> }  \* "00000012345\n"

\* buffered_read() called by the loop.
Poll == calls < MaxPolls /\ CallBody("buffered_read")

\* The device puts a response line on the line.
Respond ==
    /\ pc = "idle"
    /\ Len(tx) >= 1
    /\ Len(rx) <= (MaxQueued - 1) * IN_WAITING_MIN
    /\ \E line \in ResponseLines : rx' = rx \o line
    /\ stalled' = 0
    /\ UNCHANGED <<initial_value, last_values, waiting, buffer, tx, pc, op, exc, ev,
                   retval, mean, knobs, calls, reads, consumed, results, pushed, origins,
                   diag, encVars, fnVars>>

InitHist == InitKnob /\ initial_value = 0 /\ EncoderUnused /\ FunctionsUnused

NextHist == Poll \/ Respond

SpecHist == InitHist /\ [][NextHist]_vars

\* -------------------------------------------------------------- encoder
\* A frame is a sequence of rows, a row a sequence of pixels, a pixel
\* <<r, g, b>> with 8-bit components.
BLACK == <<0, 0, 0>>

Height(fr) == Len(fr)

Width(fr) == Len(fr[1])

RECURSIVE Reverse(_)
Reverse(s) == IF s = <<>> THEN <<>> ELSE Append(Reverse(Tail(s)), Head(s))

\* np.split(frame, 2): top and bottom half (equal division required).
SplitRows(fr) ==
    <<SubSeq(fr, 1, Height(fr) \div 2), SubSeq(fr, Height(fr) \div 2 + 1, Height(fr))>>

\* np.split(half, 2, axis=1): left and right part of a half.
SplitCols(half) ==
    LET w == Width(half)
    IN  <<[r \in 1..Len(half) |-> SubSeq(half[r], 1, w \div 2)],
          [r \in 1..Len(half) |-> SubSeq(half[r], w \div 2 + 1, w)]>>

\* Quadrants, had line 254 bisected the columns first and the rows second:
\* the order becomes top-left, bottom-left, top-right, bottom-right.
QuadrantsColumnsFirst(fr) ==
    LET sides == SplitCols(fr)
    IN  SplitRows(sides[1]) \o SplitRows(sides[2])

\* Line 254-255: [q1, q2, q3, q4].
Quadrants(fr) ==
    LET halves == SplitRows(fr)
    IN  SplitCols(halves[1]) \o SplitCols(halves[2])

\* Serpentine, had line 258 been left out.
SerpentineNone(q) == q

\* Line 258: q[1::2, :] = q[1::2, ::-1]; rows with odd 0-based index are
\* reversed (row r here is 1-based).
Serpentine(q) == [r \in 1..Len(q) |-> IF (r - 1) % 2 = 1 THEN Reverse(q[r]) ELSE q[r]]

\* Line 258 writes through the views np.split returned: the caller's frame
\* holds the reordered quadrants afterwards.
Reassemble(qs) ==
    [r \in 1..Len(qs[1]) |-> qs[1][r] \o qs[2][r]] \o [r \in 1..Len(qs[3]) |-> qs[3][r] \o qs[4][r]]

\* Line 260: q.reshape(-1, 3), the rows one after the other.
RECURSIVE FlattenRows(_)
FlattenRows(q) == IF q = <<>> THEN <<>> ELSE Head(q) \o FlattenRows(Tail(q))

\* Pad, had line 263 padded after the pixels (((0, n), (0, 0))).
PadTrailing(n, leds) == leds \o [i \in 1..n |-> BLACK]

\* Line 263: np.pad(q, ((n, 0), (0, 0)), constant_values=0).
Pad(n, leds) == [i \in 1..n |-> BLACK] \o leds

RECURSIVE SumSeq(_)
SumSeq(s) == IF s = <<>> THEN 0 ELSE Head(s) + SumSeq(Tail(s))

\* Positions, had the leading 0 of line 267 been left out (inclusive sums).
PositionsInclusive(lens) == [k \in 1..Len(lens) |-> SumSeq(SubSeq(lens, 1, k))]

\* Line 267: [0] + cumsum of the LED counts of all quadrants but the last.
Positions(lens) == [k \in 1..Len(lens) |-> SumSeq(SubSeq(lens, 1, k - 1))]

\* Line 269 and bytes(rgb_values): the LEDs as bytes, R, G, B each.
RECURSIVE ToBytes(_)
ToBytes(leds) == IF leds = <<>> THEN <<>> ELSE Head(leds) \o ToBytes(Tail(leds))

\* dnrgb_header, had it had no range checks and packed the low bits of its
\* arguments.
DnrgbHeaderWrapping(wait_time, start_index) ==
    [exc |-> "none",
     bytes |-> <<DNRGB_PROTOCOL_VALUE, wait_time % 256,
                 (start_index % 65536) \div 256, start_index % 256>>]

\* dnrgb_header, had it packed the start index low byte first (format "<BBH").
DnrgbHeaderLittleEndian(wait_time, start_index) ==
    IF wait_time > 255 \/ start_index > 65535 THEN [exc |-> "ValueError", bytes |-> <<>>]
    ELSE IF wait_time < 0 \/ start_index < 0 THEN [exc |-> "struct.error", bytes |-> <<>>]
    ELSE [exc |-> "none",
          bytes |-> <<DNRGB_PROTOCOL_VALUE, wait_time, start_index % 256, start_index \div 256>>]

\* dnrgb_header(), lines 112-116; struct.pack(">BBH", ...) raises
\* struct.error for a field outside its unsigned range.
dnrgb_header(wait_time, start_index) ==
    IF wait_time > 255 THEN [exc |-> "ValueError", bytes |-> <<>>]
    ELSE IF start_index > 65535 THEN [exc |-> "ValueError", bytes |-> <<>>]
    ELSE IF wait_time < 0 \/ start_index < 0 THEN [exc |-> "struct.error", bytes |-> <<>>]
    ELSE [exc |-> "none",
          bytes |-> <<DNRGB_PROTOCOL_VALUE, wait_time, start_index \div 256, start_index % 256>>]

\* send_rgb(), line 124: the datagram handed to sock.sendto.
send_rgb(rgb_values, start_index) ==
    LET h == dnrgb_header(WAIT_TIME, start_index)
    IN  [exc |-> h.exc, bytes |-> IF h.exc = "none" THEN h.bytes \o rgb_values ELSE <<>>]

\* send_quadrant(), lines 254-269 for a frame both of whose sides are even:
\* the LED sequences (padding included), their start positions, and the
\* frame as the call leaves it.
Encode(fr, leading) ==
    LET qs == Quadrants(fr)
        ser == [k \in 1..4 |-> Serpentine(qs[k])]
        leds == [k \in 1..4 |-> Pad(leading[k], FlattenRows(ser[k]))]
        positions == Positions([k \in 1..4 |-> Len(leds[k])])
    IN  [frame |-> Reassemble(ser),
         datagrams |-> [k \in 1..4 |-> send_rgb(ToBytes(leds[k]), positions[k])]]

\* np.split raises ValueError unless the axis divides into two equal parts.
Splittable(fr) == Height(fr) % 2 = 0 /\ Width(fr) % 2 = 0

\* QUADRANT_LEADING_LEDS, line 252.
QUADRANT_LEADING_LEDS == <<1, 1, 1, 1>>

\* Leading-LED configurations: the one in the source and edits of it.
LeadingChoices == {QUADRANT_LEADING_LEDS, <<0, 0, 0, 0>>, <<2, 0, 1, 3>>}

\* Largest side of a frame.
MaxSide == 4

Sides == 1..MaxSide

\* Frames whose pixel at 0-based (i, j) is <<i, j, i*W + j>>: every pixel
\* of the frame is different.
IndexFrame(h, w) == [i \in 1..h |-> [j \in 1..w |-> <<i - 1, j - 1, (i - 1) * w + (j - 1)>>]]

BlackFrame(h, w) == [i \in 1..h |-> [j \in 1..w |-> BLACK]]

Palette == {BLACK, <<255, 128, 1>>}

Frames ==
    {IndexFrame(h, w) : h \in Sides, w \in Sides}
    \cup {BlackFrame(h, w) : h \in Sides, w \in Sides}
    \cup [1..2 -> [1..2 -> Palette]]

\* send_quadrant(frame), lines 251-272.  fail is the datagram whose
\* sock.sendto raises OSError (0: none does).  An exception leaves
\* send_quadrant, and start_cam, at once.
SendQuadrant ==
    /\ enc_exc = "none"
    /\ sends < MaxSends
    /\ sends' = sends + 1
    /\ IF ~Splittable(frame)
       THEN /\ enc_exc' = "ValueError"
            /\ sent' = <<>>
            /\ UNCHANGED frame
       ELSE \E fail \in 0..4 :
            LET e == Encode(frame, n_leading)
                bad == {k \in 1..4 : e.datagrams[k].exc # "none" \/ k = fail}
                stop == IF bad = {} THEN 5 ELSE CHOOSE k \in bad : \A j \in bad : k <= j
            IN  /\ frame' = e.frame
                /\ sent' = [k \in 1..(stop - 1) |-> e.datagrams[k].bytes]
                /\ enc_exc' = IF stop = 5 THEN "none"
                              ELSE IF e.datagrams[stop].exc # "none" THEN e.datagrams[stop].exc
                              ELSE "OSError"
    /\ UNCHANGED <<n_leading, knobVars, fnVars>>

\* start_cam's loop, lines 199-248: the next frame is ready.
NextFrame ==
    /\ enc_exc = "none"
    /\ sends < MaxSends
    /\ frame' \in Frames
    /\ frame' # frame
    /\ sent' = <<>>
    /\ UNCHANGED <<n_leading, enc_exc, sends, knobVars, fnVars>>

\* knob_reader is None: the reader is never called.
KnobUnused == InitKnob /\ initial_value = 0

InitEnc ==
    /\ frame \in Frames
    /\ n_leading \in LeadingChoices
    /\ sent = <<>>
    /\ enc_exc = "none"
    /\ sends = 0
    /\ KnobUnused
    /\ FunctionsUnused

NextEnc == SendQuadrant \/ NextFrame

SpecEnc == InitEnc /\ [][NextEnc]_vars

\* ------------------------------------------- the functions on their own
WaitTimes == {-1, 0, 1, 5, 127, 255, 256, 261}

StartIndices ==
    {-1, 0, 1, 5, 255, 256, 257, 442, 1326, 65279, 65280, 65535, 65536, 65537, 131072}

Payloads == {<<>>, <<1, 2, 3>>, <<255, 128, 1, 0, 0, 0>>}

\* A call dnrgb_header(arg_wait_time, arg_start_index).
DnrgbHeader ==
    /\ header.exc = "uncalled"
    /\ header' = dnrgb_header(arg_wait_time, arg_start_index)
    /\ UNCHANGED <<arg_wait_time, arg_start_index, datagram, voltages, knob_values,
                   knobVars, encVars>>

\* A call send_rgb(rgb_values, arg_start_index), lines 124-126: when the
\* header raises nothing reaches the socket.
SendRgb ==
    /\ datagram.exc = "uncalled"
    /\ \E rgb_values \in Payloads :
         LET d == send_rgb(rgb_values, arg_start_index)
         IN  datagram' = [exc |-> d.exc, bytes |-> d.bytes, rgb_values |-> rgb_values]
    /\ UNCHANGED <<arg_wait_time, arg_start_index, header, voltages, knob_values,
                   knobVars, encVars>>

InitHdr ==
    /\ arg_wait_time \in WaitTimes
    /\ arg_start_index \in StartIndices
    /\ header = [exc |-> "uncalled", bytes |-> <<>>]
    /\ datagram = [exc |-> "uncalled", bytes |-> <<>>, rgb_values |-> <<>>]
    /\ voltages = <<0, 0>>
    /\ knob_values = <<>>
    /\ KnobUnused
    /\ EncoderUnused

NextHdr == DnrgbHeader \/ SendRgb

SpecHdr == InitHdr /\ [][NextHdr]_vars

\* Raw readings handed to voltage_to_value: both ends of the 16-bit range,
\* both clamp thresholds (0.05 V is passed between 992 and 993, 2.8 V between
\* 55605 and 55606) and values outside the range.
RawValues ==
    {-70000, -1, 0, 1, 992, 993, 20000, 32768, 55605, 55606, 65534, 65535, 65536, 70000,
     1000000}

\* get_knob_values(), line 66: voltage_to_value mapped over a pair.
VoltageToValue ==
    /\ knob_values = <<>>
    /\ knob_values' = <<voltage_to_value(voltages[1]), voltage_to_value(voltages[2])>>
    /\ UNCHANGED <<arg_wait_time, arg_start_index, header, datagram, voltages,
                   knobVars, encVars>>

InitVolt ==
    /\ voltages \in RawValues \X RawValues
    /\ knob_values = <<>>
    /\ arg_wait_time = 0
    /\ arg_start_index = 0
    /\ header = [exc |-> "uncalled", bytes |-> <<>>]
    /\ datagram = [exc |-> "uncalled", bytes |-> <<>>, rgb_values |-> <<>>]
    /\ KnobUnused
    /\ EncoderUnused

NextVolt == VoltageToValue

SpecVolt == InitVolt /\ [][NextVolt]_vars

\* ------------------------------------------------- properties: KnobReader
\* The first terminated line of a byte string.
FirstLine(b) == SubSeq(b, 1, LineEnd(b))

AfterFirstLine(b) == SubSeq(b, LineEnd(b) + 1, Len(b))

\* line is two integers separated by one tab: "a<TAB>b<NEWLINE>".
IsPairLine(line) ==
    LET f == SplitTab(line, <<>>)
    IN  Len(f) = 2 /\ PyInt(f[1]).ok /\ PyInt(f[2]).ok

PairOf(line) ==
    LET f == SplitTab(line, <<>>) IN Reading(PyInt(f[1]).val, PyInt(f[2]).val)

\* line does not start with two integer fields.
IsMalformed(line) ==
    LET f == SplitTab(line, <<>>)
    IN  Len(f) < 2 \/ ~PyInt(f[1]).ok \/ ~PyInt(f[2]).ok

\* This step is the start of a call on the reader.
CallStarts == pc = "idle" /\ calls' = calls + 1

\* This step is the return of a buffered_read() (also inside
\* get_knob_values()).
BufferedReturns == op' # "read" /\ pc' = "idle" /\ (calls' = calls + 1 \/ pc = "blocked")

\* q is m / n rounded toward minus infinity, resp. toward zero (n > 0).
IsFloor(q, m, n) == q * n <= m /\ m < (q + 1) * n

IsTrunc(q, m, n) == IF m >= 0 THEN IsFloor(q, m, n) ELSE IsFloor(-q, -m, n)

InitialFill == [i \in 1..BUFFER_LEN |-> Reading(initial_value, initial_value)]

\* C1: read() never blocks on the transport: the caller is never inside
\* readline() without a complete newline-terminated line buffered, whatever
\* the transport holds.
C1_ReadNeverBlocks == ~(pc = "blocked" /\ ~HasLine(rx))

\* C2: a read() in IDLE writes exactly one request byte, reads nothing from
\* the transport, moves to AWAITING_RESPONSE, leaves the held Reading as it
\* is and returns it.
C2_IdleReadSendsRequest ==
    [][(CallStarts /\ ~waiting) =>
          /\ tx' = Append(tx, "N")
          /\ rx' = rx
          /\ consumed' = consumed
          /\ waiting' = TRUE
          /\ last_values' = last_values
          /\ retval' = last_values
          /\ pc' = "idle"]_vars

\* C2 witness: a request has just been sent while the held Reading is a
\* value that was read from the line.
C2_Witness ==
    /\ ev = "sent"
    /\ waiting
    /\ Len(tx) = 2
    /\ last_values = Reading(12, 34)
    /\ retval = last_values

\* C3: while a request is outstanding and the transport has delivered
\* nothing, every further read() returns the held Reading, writes no
\* request byte, consumes nothing and leaves state and held Reading alone.
C3_SilentTransportHolds ==
    /\ [](stalled >= 1 => (waiting /\ pc = "idle" /\ retval = last_values /\ rx = <<>>))
    /\ [][(CallStarts /\ waiting /\ rx = <<>>) =>
             /\ retval' = last_values
             /\ last_values' = last_values
             /\ tx' = tx
             /\ rx' = rx
             /\ consumed' = consumed
             /\ waiting' = TRUE
             /\ stalled' = stalled + 1
             /\ pc' = "idle"]_vars

\* C3 witness: three calls in a row were answered from the held Reading
\* with nothing on the line, after the single request.
C3_Witness == stalled >= 3 /\ waiting /\ Len(tx) = 1 /\ consumed = 0

\* C4: with a request outstanding and a complete line "a<TAB>b<NEWLINE>" at
\* the front of the transport buffer, the next read() consumes the line,
\* returns (a, b), stores it and goes back to IDLE.
C4_CompleteLineIsConsumed ==
    [][(CallStarts /\ waiting /\ HasLine(rx) /\ IsPairLine(FirstLine(rx))) =>
          /\ retval' = PairOf(FirstLine(rx))
          /\ last_values' = PairOf(FirstLine(rx))
          /\ rx' = AfterFirstLine(rx)
          /\ consumed' = consumed + 1
          /\ waiting' = FALSE
          /\ pc' = "idle"]_vars

\* C5: every consumed line that is not two integers separated by a tab
\* raises nothing, yields (0, 0) as the returned and the held Reading, and
\* returns the reader to IDLE.
C5_MalformedLineYieldsSentinel ==
    [][(consumed' = consumed + 1 /\ IsMalformed(FirstLine(rx))) =>
          /\ exc' = "none"
          /\ pc' = "idle"
          /\ retval' = Reading(0, 0)
          /\ last_values' = Reading(0, 0)
          /\ waiting' = FALSE]_vars

\* C6: requests written minus lines consumed is 0 or 1, and is 1 exactly in
\* AWAITING_RESPONSE; no request is written while AWAITING_RESPONSE and no
\* line is consumed while IDLE.
C6_OneOutstandingRequest ==
    /\ [](/\ Len(tx) - consumed \in {0, 1}
          /\ (Len(tx) - consumed = 1) <=> waiting)
    /\ [][/\ (waiting => tx' = tx)
          /\ (~waiting => consumed' = consumed)]_vars

\* C7 as stated: buffered_read() runs read() once and returns, per
\* component, the mean of the ten history entries (new result pushed,
\* oldest evicted) truncated toward zero.
C7_TruncatedMean ==
    [][/\ (CallStarts => reads' = reads + 1)
       /\ (BufferedReturns =>
             /\ buffer' = <<retval'>> \o SubSeq(buffer, 1, BUFFER_LEN - 1)
             /\ \A k \in {1, 2} : IsTrunc(mean'[k], SumComp(buffer', k), BUFFER_LEN))]_vars

\* C7 amended: buffered_read() runs read() once and, when it returns,
\* returns per component the mean of the ten history entries (new result
\* pushed, oldest evicted) rounded toward minus infinity, which is the
\* truncated mean whenever the component sum is not negative.
C7_FloorMean ==
    [][/\ (CallStarts => reads' = reads + 1)
       /\ (BufferedReturns =>
             /\ buffer' = <<retval'>> \o SubSeq(buffer, 1, BUFFER_LEN - 1)
             /\ \A k \in {1, 2} : IsFloor(mean'[k], SumComp(buffer', k), BUFFER_LEN))]_vars

\* C7 witness: a buffered_read() has returned the mean of a history whose
\* sum is negative (one (-1, -1) among zeros gives (-1, -1), not (0, 0)).
C7_Witness ==
    /\ pc = "idle"
    /\ op = "buffered_read"
    /\ buffer[1] = Reading(-1, -1)
    /\ SumComp(buffer, 1) = -1
    /\ mean = Reading(-1, -1)

\* C8 as stated: the history has exactly ten entries, the most recent
\* read() results newest first, then initial entries.
C8_HistoryOfReads ==
    /\ Len(buffer) = BUFFER_LEN
    /\ buffer = Take(results \o InitialFill, BUFFER_LEN)

\* C8 amended: the history has exactly ten entries in every state, and they
\* are the results of the most recent read() calls made by buffered_read()
\* (directly or through get_knob_values()), newest first, then initial
\* entries; a direct read() call does not enter the history.
C8_HistoryOfBufferedReads ==
    /\ Len(buffer) = BUFFER_LEN
    /\ buffer = Take(pushed \o InitialFill, BUFFER_LEN)

\* C8 witness: the history holds a value read from the line and pushed by
\* buffered_read(), while read() results went by that were never pushed.
C8_Witness ==
    /\ Len(pushed) >= 2
    /\ pushed[1] = Reading(12, 34)
    /\ buffer[1] = Reading(12, 34)
    /\ buffer[BUFFER_LEN] = Reading(initial_value, initial_value)
    /\ Len(results) > Len(pushed)

\* ---------------------------------------------------- properties: encoder
\* Fields of a datagram as the receiver decodes them.
StartIndex(d) == d[3] * 256 + d[4]

LedCount(d) == (Len(d) - 4) \div 3

\* The three payload bytes of the LED at 0-based position pos of datagram d.
LedAt(d, pos) == <<d[4 + 3 * pos + 1], d[4 + 3 * pos + 2], d[4 + 3 * pos + 3]>>

\* Quadrant k (1: top-left, 2: top-right, 3: bottom-left, 4: bottom-right)
\* of a frame with quadrants of h rows and w columns starts at this 0-based
\* row and column of the frame.
RowOff(k, h) == IF k \in {1, 2} THEN 0 ELSE h

ColOff(k, w) == IF k \in {1, 3} THEN 0 ELSE w

\* C9: for a square frame of even side and any leading-LED counts, the k-th
\* datagram's start index is the sum of the LED counts (leading LEDs plus
\* quadrant pixels) of the quadrants before it, in the order TL, TR, BL,
\* BR; the first is 0 and the address ranges follow one another without
\* gap or overlap.
C9_StartIndicesCumulative ==
    (Splittable(frame) /\ Height(frame) = Width(frame)) =>
        \A k \in 1..Len(sent) :
            LET pixels == (Height(frame) \div 2) * (Width(frame) \div 2)
            IN  /\ StartIndex(sent[k]) = SumSeq([j \in 1..(k - 1) |-> n_leading[j] + pixels])
                /\ LedCount(sent[k]) = n_leading[k] + pixels
                /\ k = 1 => StartIndex(sent[k]) = 0
                /\ k > 1 => StartIndex(sent[k]) = StartIndex(sent[k - 1]) + LedCount(sent[k - 1])

\* C9 witness: a 4x4 frame with one leading LED per quadrant has been sent
\* whole: 5 LEDs per datagram, start indices 0, 5, 10, 15.
C9_Witness ==
    /\ Len(sent) = 4
    /\ Height(frame) = 4 /\ Width(frame) = 4
    /\ n_leading = <<1, 1, 1, 1>>
    /\ [k \in 1..4 |-> StartIndex(sent[k])] = <<0, 5, 10, 15>>
    /\ \A k \in 1..4 : LedCount(sent[k]) = 5

\* C10: after the leading LEDs, the pixel at row r, column c of a quadrant
\* of width w is the LED at position r*w + c for even r and r*w + (w-1-c)
\* for odd r, its bytes in the order R, G, B, and the payload holds nothing
\* else.
C10_SerpentineOrder ==
    [][(sends' = sends + 1 /\ Splittable(frame)) =>
          LET h == Height(frame) \div 2
              w == Width(frame) \div 2
          IN  \A k \in 1..Len(sent') :
                /\ Len(sent'[k]) = 4 + 3 * (n_leading[k] + h * w)
                /\ \A r \in 0..(h - 1) : \A c \in 0..(w - 1) :
                      LedAt(sent'[k],
                            n_leading[k] + (IF r % 2 = 0 THEN r * w + c ELSE r * w + (w - 1 - c)))
                        = frame[RowOff(k, h) + r + 1][ColOff(k, w) + c + 1]]_vars

\* C10 witness: the top-left quadrant [[A, B], [C, D]] of the 4x4 frame
\* with pixel (i, j) = <<i, j, 4i + j>> went out, after one leading LED, as
\* A, B, D, C.
C10_Witness ==
    /\ sends = 1
    /\ Len(sent) = 4
    /\ sent[1] = <<4, 5, 0, 0,  0, 0, 0,  0, 0, 0,  0, 1, 1,  1, 1, 5,  1, 0, 4>>

\* The pixels of quadrant k of frame fr, and the LEDs of datagram d after
\* its first lead LEDs, as sets.
QuadrantPixels(fr, k) ==
    LET h == Height(fr) \div 2
        w == Width(fr) \div 2
    IN  {fr[RowOff(k, h) + r + 1][ColOff(k, w) + c + 1] : r \in 0..(h - 1), c \in 0..(w - 1)}

PayloadLeds(d, lead) == {LedAt(d, pos) : pos \in lead..(LedCount(d) - 1)}

\* This step is a call of send_quadrant.
SendQuadrantCalled == sends' = sends + 1

\* C11: a call of send_quadrant on a frame with even sides, none of whose
\* sends fails, transmits exactly four datagrams, one per quadrant in the
\* order top-left, top-right, bottom-left, bottom-right (rows bisected, then
\* columns); each is the header (4, 5, start index) followed directly by
\* that quadrant's payload.  When a send fails, what was transmitted before
\* is the beginning of that same sequence.
C11_FourDatagramsInOrder ==
    [][(SendQuadrantCalled /\ Splittable(frame)) =>
          LET pixels == (Height(frame) \div 2) * (Width(frame) \div 2)
          IN  /\ Len(sent') <= 4
              /\ enc_exc' = "none" => Len(sent') = 4
              /\ \A k \in 1..Len(sent') :
                    /\ sent'[k][1] = 4
                    /\ sent'[k][2] = 5
                    /\ StartIndex(sent'[k]) = SumSeq([j \in 1..(k - 1) |-> n_leading[j] + pixels])
                    /\ Len(sent'[k]) = 4 + 3 * (n_leading[k] + pixels)
                    /\ PayloadLeds(sent'[k], n_leading[k]) = QuadrantPixels(frame, k)]_vars

\* C11 witness: the 4x4 frame with pixel (i, j) = <<i, j, 4i + j>> went out
\* as four datagrams; the second carries the top-right quadrant, the third
\* the bottom-left one.
C11_Witness ==
    /\ Len(sent) = 4
    /\ enc_exc = "none"
    /\ sends = 1
    /\ n_leading = <<1, 1, 1, 1>>
    /\ sent[2] = <<4, 5, 0, 5,  0, 0, 0,  0, 2, 2,  0, 3, 3,  1, 3, 7,  1, 2, 6>>
    /\ sent[3] = <<4, 5, 0, 10,  0, 0, 0,  2, 0, 8,  2, 1, 9,  3, 1, 13,  3, 0, 12>>

\* C12: send_quadrant is a pure function of the frame: a call leaves the
\* caller's frame as it was, and a second call with the same frame object
\* sends the same datagrams as the first.
C12_PureFunction ==
    [][SendQuadrantCalled =>
          /\ frame' = frame
          /\ (Len(sent) = 4 /\ enc_exc' = "none") => sent' = sent]_vars

\* C13: send_quadrant fails fast on a frame that is not square (even when
\* both sides are even) or has an odd side: it raises and sends nothing.
C13_FailsFastOnBadFrame ==
    [][(SendQuadrantCalled /\ (Height(frame) # Width(frame) \/ ~Splittable(frame))) =>
          (enc_exc' = "ValueError" /\ sent' = <<>>)]_vars

\* C15: a failed socket send is not retried, is dropped silently and the
\* frame loop goes on to the next frame: no call of send_quadrant ends with
\* the socket's error, which would end start_cam's loop.
C15_SendFailureDropped == enc_exc # "OSError"

\* Occurrences of x in the sequence s.
RECURSIVE CountIn(_, _)
CountIn(s, x) == IF s = <<>> THEN 0 ELSE (IF Head(s) = x THEN 1 ELSE 0) + CountIn(Tail(s), x)

\* The LEDs of datagram d from 0-based position from on, in order.
LedsFrom(d, from) == [i \in 1..(LedCount(d) - from) |-> LedAt(d, from + i - 1)]

\* The pixels of quadrant k of frame fr, row by row.
QuadrantSeq(fr, k) ==
    LET h == Height(fr) \div 2
        w == Width(fr) \div 2
    IN  [i \in 1..(h * w) |->
            fr[RowOff(k, h) + ((i - 1) \div w) + 1][ColOff(k, w) + ((i - 1) % w) + 1]]

\* C19: each datagram's payload is exactly 3 * (pad_k + (H/2)*(W/2)) bytes;
\* its first 3 * pad_k bytes are zero and the rest are the quadrant's pixel
\* bytes, every pixel as often as it occurs in the quadrant.
C19_PayloadLayout ==
    [][(SendQuadrantCalled /\ Splittable(frame)) =>
          LET pixels == (Height(frame) \div 2) * (Width(frame) \div 2)
          IN  \A k \in 1..Len(sent') :
                /\ Len(sent'[k]) - 4 = 3 * (n_leading[k] + pixels)
                /\ \A i \in 1..(3 * n_leading[k]) : sent'[k][4 + i] = 0
                /\ \A p \in QuadrantPixels(frame, k) \cup PayloadLeds(sent'[k], n_leading[k]) :
                      CountIn(LedsFrom(sent'[k], n_leading[k]), p)
                        = CountIn(QuadrantSeq(frame, k), p)]_vars

\* C19 witness: with leading counts 2, 0, 1, 3 a 2x2 frame of four coloured
\* pixels went out: two black LEDs then the pixel; the pixel alone; one
\* black LED then the pixel; three black LEDs then the pixel.
C19_Witness ==
    /\ n_leading = <<2, 0, 1, 3>>
    /\ Len(sent) = 4
    /\ sent[1] = <<4, 5, 0, 0,  0, 0, 0,  0, 0, 0,  255, 128, 1>>
    /\ sent[2] = <<4, 5, 0, 3,  255, 128, 1>>
    /\ sent[3] = <<4, 5, 0, 4,  0, 0, 0,  255, 128, 1>>
    /\ sent[4] = <<4, 5, 0, 6,  0, 0, 0,  0, 0, 0,  0, 0, 0,  255, 128, 1>>

\* --------------------------------------------- properties: the functions
IsByte(b) == b \in 0..255

\* The header fields as the receiver decodes them: one byte, one byte, two
\* bytes big-endian.
DecodeHeader(b) == <<b[1], b[2], b[3] * 256 + b[4]>>

WaitInRange == arg_wait_time \in 0..255

StartInRange == arg_start_index \in 0..65535

\* C14: dnrgb_header gives an error and no header whenever wait_time is
\* outside 0..255 or start_index outside 0..65535, and send_rgb then sends
\* nothing; a header is only ever returned for arguments in range.
C14_HeaderRejectsOutOfRange ==
    /\ (header.exc # "uncalled" /\ ~(WaitInRange /\ StartInRange)) =>
          (header.exc \in {"ValueError", "struct.error"} /\ header.bytes = <<>>)
    /\ header.exc = "none" => (WaitInRange /\ StartInRange)
    /\ (datagram.exc # "uncalled" /\ ~StartInRange) =>
          (datagram.exc \in {"ValueError", "struct.error"} /\ datagram.bytes = <<>>)

\* C14 witness: start index 65536 with a wait time in range was refused by
\* dnrgb_header and by send_rgb.
C14_Witness ==
    /\ arg_start_index = 65536
    /\ arg_wait_time = 5
    /\ header.exc = "ValueError"
    /\ datagram.exc = "ValueError"
    /\ datagram.bytes = <<>>

\* C16: for wait_time in 0..255 and start_index in 0..65535 the header is
\* four bytes that decode, big-endian (1, 1, 2 bytes), to (4, wait_time,
\* start_index), and in a datagram the payload starts at byte offset 4.
C16_HeaderRoundTrip ==
    /\ (header.exc # "uncalled" /\ WaitInRange /\ StartInRange) =>
          /\ header.exc = "none"
          /\ Len(header.bytes) = 4
          /\ \A i \in 1..4 : IsByte(header.bytes[i])
          /\ DecodeHeader(header.bytes) = <<4, arg_wait_time, arg_start_index>>
    /\ (datagram.exc # "uncalled" /\ StartInRange) =>
          /\ datagram.exc = "none"
          /\ \A i \in 1..4 : IsByte(datagram.bytes[i])
          /\ DecodeHeader(datagram.bytes) = <<4, 5, arg_start_index>>
          /\ SubSeq(datagram.bytes, 5, Len(datagram.bytes)) = datagram.rgb_values

\* C16 witness: wait time 255 and start index 65280 (high byte 255, low
\* byte 0) were packed, and a datagram with a payload was built.
C16_Witness ==
    /\ arg_wait_time = 255
    /\ arg_start_index = 65280
    /\ header.bytes = <<4, 255, 255, 0>>
    /\ datagram.bytes = <<4, 5, 255, 0, 1, 2, 3>>

\* C17: voltage_to_value(raw) is within [0, 1] for every integer raw, maps
\* 65535 to 1 and 0 to 0, and never decreases when raw increases.  (Values
\* are numerators over VoltDen.)
C17_NormalizedRange ==
    knob_values # <<>> =>
        /\ \A k \in {1, 2} :
              /\ 0 <= knob_values[k] /\ knob_values[k] <= VoltDen
              /\ voltages[k] = ADC_MAX => knob_values[k] = VoltDen
              /\ voltages[k] = 0 => knob_values[k] = 0
        /\ voltages[1] <= voltages[2] => knob_values[1] <= knob_values[2]

\* C17 witness: a raw value far above the 16-bit range and one strictly
\* inside the clamp window were converted: the first gives 1, the second
\* lies strictly between 0 and 1.
C17_Witness ==
    /\ knob_values # <<>>
    /\ voltages = <<1000000, 32768>>
    /\ knob_values[1] = VoltDen
    /\ 0 < knob_values[2] /\ knob_values[2] < VoltDen

\* C18: a consumed response line carrying -1 in either field stores and
\* returns the sentinel (0, 0).
C18_MinusOneIsSentinel ==
    [][(/\ consumed' = consumed + 1
        /\ pc' = "idle"
        /\ IsPairLine(FirstLine(rx))
        /\ -1 \in {PairOf(FirstLine(rx))[1], PairOf(FirstLine(rx))[2]}) =>
          (retval' = Reading(0, 0) /\ last_values' = Reading(0, 0))]_vars

\* ---------------------------------------------- properties: polling loop
\* The consumed lines the history reflects: the line numbers behind its
\* entries, 0 standing for the constructor's value.
LinesInHistory == {origins[i] : i \in 1..Len(origins)} \ {0}

\* A call that follows a call that consumed a line only sends a request and
\* returns the same held Reading.
SendFollowsConsume ==
    [][(CallStarts /\ ev = "line") =>
          /\ ev' = "sent"
          /\ consumed' = consumed
          /\ tx' = Append(tx, "N")
          /\ retval' = retval
          /\ last_values' = last_values]_vars

\* Each reading that came from a line is in the history at least twice in
\* a row, unless it is the newest entry and was consumed by the last call,
\* or its older copies have been evicted.
FreshReadingTwice ==
    \A i \in 1..Len(origins) :
        (origins[i] # 0 /\ (i = 1 \/ origins[i - 1] # origins[i])) =>
            \/ i = 1 /\ ev = "line"
            \/ i = BUFFER_LEN
            \/ (i < Len(origins) /\ origins[i + 1] = origins[i])

\* C20 as stated: no two consecutive read() calls both consume a line; the
\* call after a consuming one only sends a request and returns the same
\* held Reading; under buffered_read() each fresh reading enters the history
\* at least twice in a row, and the 10-entry history reflects at most 5
\* distinct consumed lines.
C20_AtMostFiveLines ==
    /\ SendFollowsConsume
    /\ [](FreshReadingTwice /\ Cardinality(LinesInHistory) <= 5)

\* C20 amended: as stated, except that the 10-entry history reflects at
\* most 6 distinct consumed lines: the newest entry may be a reading
\* consumed by the last call, and the oldest a reading whose first copy has
\* been evicted, with four readings held twice in between.
C20_AtMostSixLines ==
    /\ SendFollowsConsume
    /\ [](FreshReadingTwice /\ Cardinality(LinesInHistory) <= 6)

\* C20 witness: twelve buffered reads, alternately sending and consuming,
\* left six distinct lines in the history: one entry of the newest, one of
\* the oldest and two of each of the four between.
C20_Witness ==
    /\ Len(origins) = BUFFER_LEN
    /\ ev = "line"
    /\ origins = <<6, 5, 5, 4, 4, 3, 3, 2, 2, 1>>
    /\ Cardinality(LinesInHistory) = 6

====
